---- MODULE Spec2Model ----
(***************************************************************************)
(* Model of tasks/vrptw.py: the VRPTWDataset constructor, the capacity     *)
(* mask (update_mask), the time-window mask (update_time_mask) and the     *)
(* state transition (update_dynamic).                                      *)
(*                                                                         *)
(* Numbers.  A load or demand x of the code (a float, a multiple of        *)
(* 1/max_load) is the integer x * max_load, so the full load 1.0 is        *)
(* max_load.  A time t of the code (normalised by TW_to - TW_from) is the  *)
(* integer t * (TW_to - TW_from), so the horizon end 1.0 is Horizon.       *)
(* Float rounding is not modelled.                                         *)
(*                                                                         *)
(* Indices.  Nodes keep the code's numbers (0 is the depot).  Rows of the  *)
(* dataset and positions of a batch are 1-based here: row r of the code is *)
(* sample r + 1, batch position b of the code is position b + 1.           *)
(*                                                                         *)
(* Tensors.  A tensor of shape (batch, seq_len) is a sequence over the     *)
(* batch positions of functions over Nodes.  Masks are the uint8 tensors   *)
(* of the torch releases the file was written for (0.4 to 1.1), where      *)
(* 1 - mask is the complement.                                             *)
(*                                                                         *)
(* Exceptions.  An operation that raises returns [raised |-> <name>]; the  *)
(* exception ends the run (no action is enabled once raised # "none").     *)
(*                                                                         *)
(* Specifications.  Spec: the operations from the constructor's state, for *)
(* the arguments fixed below.  SpecFollow: the same, naming only nodes the *)
(* capacity mask allows.  SpecAny: the operations from any state of the    *)
(* data model.  SpecConfig: the constructor for any arguments.             *)
(***************************************************************************)
EXTENDS Integers, Sequences, FiniteSets, TLC

VARIABLES
    locations,       \* self.locations: sample -> node -> coordinate
    time_matrix,     \* self.time_matrix: sample -> node -> node -> time
    static,          \* self.static[:, -2] and [:, -1]: sample -> [tw_start, tw_end]
    batch,           \* the dataset samples of the minibatch (__getitem__ indices)
    dynamic,         \* batch position -> [loads, demands, vtime], each node -> value
    chosen_idx,      \* batch position -> node chosen last (the vehicle's node)
    pre_chosen_idx,  \* batch position -> node chosen before that
    mask,            \* what update_mask returned for this state, <<>> before the call
    time_mask,       \* what update_time_mask returned for this state, <<>> before
    raised,          \* "none", or the exception that ended the run
    given,           \* the tensor passed to update_dynamic last, as the call left it
    config           \* the arguments the constructor was called with

vars == <<locations, time_matrix, static, batch, dynamic, chosen_idx,
          pre_chosen_idx, mask, time_mask, raised, given, config>>

----------------------------------------------------------------------------
(* Sizes and constructor parameters *)

\* input_size: the number of customers of an instance
NumCustomers == 2
\* num_samples: the number of instances of the dataset
NumSamples == 2
\* max_load: the vehicle's capacity in demand units
max_load == 2
\* max_demand: the largest initial demand; the constructor accepts max_demand <= max_load
max_demand == max_load
\* min_TW, max_TW: the shortest and longest time window
min_TW == 1
max_TW == min_TW
\* TW_from, TW_to: the planning horizon
TW_from == 0
TW_to == 2
\* ServiceTime
ServiceTime == 0
\* the largest coordinate, in units of the distance driven in one time unit
MaxCoord == 2

Nodes == 0..NumCustomers
Customers == 1..NumCustomers
Samples == 1..NumSamples
Horizon == TW_to - TW_from

\* the batches a loader can hand out: one or two distinct samples, any order
Batches ==
    { <<s>> : s \in Samples } \cup
    { b \in Samples \X Samples : b[1] # b[2] }

----------------------------------------------------------------------------
(* Helpers *)

Abs(x) == IF x < 0 THEN -x ELSE x

Max(a, b) == IF a > b THEN a ELSE b

Min(a, b) == IF a < b THEN a ELSE b

\* tensor.sum(1) over the columns 1..n of one row
RECURSIVE SumRow(_, _)
SumRow(row, n) == IF n = 0 THEN 0 ELSE row[n] + SumRow(row, n - 1)

Ok(v) == [raised |-> "none", value |-> v]

Raise(e, v) == [raised |-> e, value |-> v]

----------------------------------------------------------------------------
(* VRPTWDataset.__init__ *)

\* the arguments of the runs: the sizes above
DefaultConfig ==
    [max_load |-> max_load, max_demand |-> max_demand, min_TW |-> min_TW,
     max_TW |-> max_TW, TW_from |-> TW_from, TW_to |-> TW_to]

\* variant: the checks are strict, as their messages ("must be >") say
config_error_strict(cfg) ==
    IF cfg.max_load <= cfg.max_demand THEN "ValueError"
    ELSE IF cfg.max_TW <= cfg.min_TW THEN "ValueError"
    ELSE IF cfg.TW_to <= cfg.TW_from THEN "ValueError"
    ELSE "none"

\* the three parameter checks; "none" when the configuration is accepted
config_error(cfg) ==
    IF cfg.max_load < cfg.max_demand THEN "ValueError"
    ELSE IF cfg.max_TW < cfg.min_TW THEN "ValueError"
    ELSE IF cfg.TW_to < cfg.TW_from THEN "ValueError"
    ELSE "none"

\* self.servicetime = ServiceTime / (TW_to - TW_from), in time units
servicetime == ServiceTime

\* torch.randint(TW_from, TW_to - max_TW + 1, ...): the window starts drawn
TwStarts == TW_from..(TW_to - max_TW)

\* torch.randint(min_TW, max_TW + 1, ...): the window lengths drawn
TwSpans == min_TW..max_TW

\* torch.randint(1, max_demand + 1, ...): the demands drawn
Demands == 1..max_demand

\* tw_start[:, 0, 0] = TW_from / TW_to - TW_from (exact here: TW_from = 0)
depot_tw_start == ((TW_from * Horizon) \div TW_to) - TW_from * Horizon

\* tw_end[:, 0, 0] = TW_to / TW_to - TW_from
depot_tw_end == (1 - TW_from) * Horizon

\* tw_start / (TW_to - TW_from), with the depot's entry overwritten
tw_start_of(start) ==
    [n \in Nodes |-> IF n = 0 THEN depot_tw_start ELSE start[n]]

\* (tw_start + tw_span) / (TW_to - TW_from), with the depot's entry overwritten
tw_end_of(start, span) ==
    [n \in Nodes |-> IF n = 0 THEN depot_tw_end ELSE start[n] + span[n]]

\* sqrt((x - x')^2 + (y - y')^2) / v_speed for nodes on one line (y = y'),
\* with the coordinate unit the distance driven in one time unit
generate_time_matrix(locs) ==
    [s \in Samples |->
        [i \in Nodes |-> [j \in Nodes |-> Abs(locs[s][i] - locs[s][j])]]]

\* one sample's slice of self.dynamic: loads full, vtime 0, demands as drawn
\* and the depot's demand 0
initial_dynamic(demand) ==
    [loads   |-> [n \in Nodes |-> max_load],
     demands |-> [n \in Nodes |-> IF n = 0 THEN 0 ELSE demand[n]],
     vtime   |-> [n \in Nodes |-> 0]]

\* the draws of locations explored: a sample's customers lie on a line, at
\* spacing * k from the depot for customer k
LocationDraws ==
    { [n \in Nodes |-> n * spacing] : spacing \in 0..MaxCoord }

\* the draws of window starts explored: every node of a sample draws the same
StartDraws == { [n \in Nodes |-> t] : t \in TwStarts }

SpanDraws == { [n \in Nodes |-> t] : t \in TwSpans }

DefaultLocations == [s \in Samples |-> [n \in Nodes |-> 0]]

DefaultStatic ==
    [s \in Samples |->
        [tw_start |-> tw_start_of([n \in Nodes |-> TW_from]),
         tw_end   |-> tw_end_of([n \in Nodes |-> TW_from],
                                [n \in Nodes |-> min_TW])]]

Start(b) == [p \in 1..Len(b) |-> 0]

\* the dataset as constructed and one batch of it, vehicles at the depot
Constructed(locs, st, b, dyn) ==
    /\ config = DefaultConfig
    /\ config_error(config) = "none"
    /\ locations = locs
    /\ time_matrix = generate_time_matrix(locs)
    /\ static = st
    /\ batch = b
    /\ dynamic = dyn
    /\ chosen_idx = Start(b)
    /\ pre_chosen_idx = Start(b)
    /\ mask = <<>>
    /\ time_mask = <<>>
    /\ raised = "none"
    /\ given = <<>>

\* the demands vary, the instance is the default one
InitDemands ==
    \E b \in Batches :
    \E d \in [1..Len(b) -> [Customers -> Demands]] :
        Constructed(DefaultLocations, DefaultStatic, b,
                    [p \in 1..Len(b) |-> initial_dynamic(d[p])])

\* the instances vary, every demand is the smallest one
InitStatic ==
    \E b \in Batches :
    \E locs \in [Samples -> LocationDraws] :
    \E start \in [Samples -> StartDraws] :
    \E span \in [Samples -> SpanDraws] :
        Constructed(locs,
                    [s \in Samples |->
                        [tw_start |-> tw_start_of(start[s]),
                         tw_end   |-> tw_end_of(start[s], span[s])]],
                    b,
                    [p \in 1..Len(b) |-> initial_dynamic([c \in Customers |-> 1])])

Init == InitDemands \/ InitStatic

----------------------------------------------------------------------------
(* VRPTWDataset.update_mask *)

\* variant: the depot's slot is left out of the test
all_served_customers(demands) ==
    \A b \in 1..Len(demands) : \A n \in Customers : demands[b][n] = 0

\* demands.eq(0).all(): every node of every sample of the batch, depot included
all_served(demands) ==
    \A b \in 1..Len(demands) : \A n \in Nodes : demands[b][n] = 0

\* variant: le instead of lt
capacity_legal_le(demand, load) == demand # 0 /\ demand <= load

\* one entry of demands.ne(0) * demands.lt(loads)
capacity_legal(demand, load) == demand # 0 /\ demand < load

\* new_mask = demands.ne(0) * demands.lt(loads)
capacity_mask(demands, loads) ==
    [b \in 1..Len(demands) |->
        [n \in Nodes |-> IF capacity_legal(demands[b][n], loads[b][n]) THEN 1 ELSE 0]]

\* variant: eq instead of ne
repeat_home_eq(chosen) ==
    [b \in 1..Len(chosen) |-> IF chosen[b] = 0 THEN 1 ELSE 0]

\* repeat_home = chosen_idx.ne(0)
repeat_home(chosen) ==
    [b \in 1..Len(chosen) |-> IF chosen[b] # 0 THEN 1 ELSE 0]

\* new_mask[repeat_home.nonzero(), 0] = 1 ; new_mask[(1 - repeat_home).nonzero(), 0] = 0
depot_revisit(new_mask, rh) ==
    LET set1 == [b \in 1..Len(new_mask) |->
                    IF rh[b] # 0 THEN [new_mask[b] EXCEPT ![0] = 1] ELSE new_mask[b]]
    IN  [b \in 1..Len(new_mask) |->
            IF 1 - rh[b] # 0 THEN [set1[b] EXCEPT ![0] = 0] ELSE set1[b]]

\* has_no_load = loads[:, 0].eq(0).float()
has_no_load(loads) ==
    [b \in 1..Len(loads) |-> IF loads[b][0] = 0 THEN 1 ELSE 0]

\* has_no_demand = demands[:, 1:].sum(1).eq(0).float()
has_no_demand(demands) ==
    [b \in 1..Len(demands) |-> IF SumRow(demands[b], NumCustomers) = 0 THEN 1 ELSE 0]

\* combined = (has_no_load + has_no_demand).gt(0)
combined(loads, demands) ==
    [b \in 1..Len(loads) |-> has_no_load(loads)[b] + has_no_demand(demands)[b] > 0]

\* variant: the customers are cleared, the depot's entry is left as it is
force_depot_customers(new_mask, comb) ==
    [b \in 1..Len(new_mask) |->
        IF comb[b] THEN [n \in Nodes |-> IF n = 0 THEN new_mask[b][0] ELSE 0]
        ELSE new_mask[b]]

\* new_mask[combined.nonzero(), 0] = 1 ; new_mask[combined.nonzero(), 1:] = 0
force_depot(new_mask, comb) ==
    [b \in 1..Len(new_mask) |->
        IF comb[b] THEN [n \in Nodes |-> IF n = 0 THEN 1 ELSE 0] ELSE new_mask[b]]

update_mask(dyn, chosen) ==
    LET loads   == [b \in 1..Len(dyn) |-> dyn[b].loads]
        demands == [b \in 1..Len(dyn) |-> dyn[b].demands]
    IN  IF all_served(demands)
        THEN [b \in 1..Len(dyn) |-> [n \in Nodes |-> demands[b][n] * 0]]
        ELSE force_depot(depot_revisit(capacity_mask(demands, loads),
                                       repeat_home(chosen)),
                         combined(loads, demands))

----------------------------------------------------------------------------
(* VRPTWDataset.update_time_mask *)

\* endtime.ge(new_time), endtime of shape (num_samples, seq_len) and new_time
\* of shape (batch_size, seq_len): row by row when the sizes agree, broadcast
\* when one of them is 1, a RuntimeError (size mismatch) otherwise
ge_rows(endtime, new_time) ==
    LET S == Len(endtime)
        B == Len(new_time)
        ge(s, b) == [n \in Nodes |-> IF endtime[s][n] >= new_time[b][n] THEN 1 ELSE 0]
    IN  IF S = B THEN Ok([b \in 1..B |-> ge(b, b)])
        ELSE IF B = 1 THEN Ok([s \in 1..S |-> ge(s, 1)])
        ELSE IF S = 1 THEN Ok([b \in 1..B |-> ge(1, b)])
        ELSE Raise("RuntimeError:size", <<>>)

\* st is self.static (the whole dataset's), tm the batch's time matrices
update_time_mask(st, dyn, chosen, tm) ==
    LET vtime       == [b \in 1..Len(dyn) |-> dyn[b].vtime]
        batch_size  == Len(chosen)
        endtime     == [s \in Samples |-> st[s].tw_end]
        chosen_time == [b \in 1..batch_size |-> tm[b][chosen[b]]]
        new_time    == [b \in 1..batch_size |->
                           [n \in Nodes |-> chosen_time[b][n] + vtime[b][n]]]
    IN  ge_rows(endtime, new_time)

----------------------------------------------------------------------------
(* VRPTWDataset.update_dynamic *)

\* variant: no lower bound
clamp_min_none(x, lo) == x

\* torch.clamp(x, min=lo)
clamp_min(x, lo) == Max(x, lo)

\* torch.clamp(x, max=hi)
clamp_max(x, hi) == Min(x, hi)

\* torch.clamp(x) with neither bound: torch raises
\* RuntimeError "At least one of 'min' or 'max' must not be None".  Only a
\* batch of one sample gets this far: line 179 raises for any larger batch.
clamp_unbounded(x) == Raise("RuntimeError:clamp", x)

\* range(batch_size, chosen_idx): a tensor converts to an index only when it
\* has a single element; then the rows batch_size .. chosen_idx - 1
range_rows(batch_size, chosen) ==
    IF Len(chosen) # 1
    THEN Raise("TypeError", {})
    ELSE Ok(batch_size..(chosen[1] - 1))

\* self.static[:, -2][rows]: the window starts of the dataset rows named,
\* one result row per row named; a row the dataset lacks is an IndexError
startime_rows(st, rows) ==
    IF \E r \in rows : r + 1 \notin Samples
    THEN Raise("IndexError", <<>>)
    ELSE Ok([k \in 1..Cardinality(rows) |->
                st[(CHOOSE r \in rows : \A q \in rows : r <= q) + k].tw_start])

\* torch.where(temp_vtime < startime, startime, temp_vtime), temp_vtime of
\* shape (batch, 1) broadcast against the rows of startime
where_rows(temp_vtime, startime) ==
    [k \in 1..Len(startime) |->
        [n \in Nodes |->
            LET t == temp_vtime[IF Len(temp_vtime) = 1 THEN 1 ELSE k]
            IN  IF t < startime[k][n] THEN startime[k][n] ELSE t]]

\* lines 187-190: the rows that visit take the new load, demand and time
visit_assign(dyn, chosen, new_load, new_demand, new_vtime) ==
    IF \E b \in 1..Len(dyn) : chosen[b] # 0 /\ b > Len(new_vtime)
    THEN Raise("IndexError", dyn)
    ELSE Ok([b \in 1..Len(dyn) |->
                IF chosen[b] = 0 THEN dyn[b]
                ELSE [loads   |-> [n \in Nodes |-> new_load[b]],
                      demands |-> [n \in Nodes |->
                                      IF n = 0 THEN new_load[b] - max_load
                                      ELSE IF n = chosen[b] THEN new_demand[b]
                                      ELSE dyn[b].demands[n]],
                      vtime   |-> new_vtime[b]]])

\* lines 165-166 and 173-174: the load and the demand gathered at the chosen
\* node, and what the visit leaves of each
settle(dyn, chosen) ==
    LET load   == [b \in 1..Len(chosen) |-> dyn[b].loads[chosen[b]]]
        demand == [b \in 1..Len(chosen) |-> dyn[b].demands[chosen[b]]]
    IN  [new_load   |-> [b \in 1..Len(chosen) |-> clamp_min(load[b] - demand[b], 0)],
         new_demand |-> [b \in 1..Len(chosen) |-> clamp_min(demand[b] - load[b], 0)]]

\* the block under "if visit.any()"
visit_block(st, dyn, chosen, pre, tm) ==
    LET batch_size == Len(chosen)
        vtime      == [b \in 1..batch_size |-> dyn[b].vtime[chosen[b]]]
        new_load   == settle(dyn, chosen).new_load
        new_demand == settle(dyn, chosen).new_demand
        rout_time  == [b \in 1..batch_size |-> tm[b][pre[b]][chosen[b]]]
        rows       == range_rows(batch_size, chosen)
        startime   == startime_rows(st, rows.value)
        clamped    == [b \in 1..batch_size |-> clamp_unbounded(vtime[b] + rout_time[b])]
        temp_vtime == where_rows([b \in 1..batch_size |-> clamped[b].value],
                                 startime.value)
        new_vtime  == [k \in 1..Len(temp_vtime) |->
                          [n \in Nodes |->
                              clamp_max(temp_vtime[k][n] + servicetime, Horizon)]]
    IN  IF rows.raised # "none" THEN Raise(rows.raised, dyn)
        ELSE IF startime.raised # "none" THEN Raise(startime.raised, dyn)
        ELSE IF \E b \in 1..batch_size : clamped[b].raised # "none"
             THEN Raise("RuntimeError:clamp", dyn)
        ELSE visit_assign(dyn, chosen, new_load, new_demand, new_vtime)

\* variant: the clock is not reset
depot_block_keep_time(dyn, chosen) ==
    [b \in 1..Len(dyn) |->
        IF chosen[b] # 0 THEN dyn[b]
        ELSE [loads   |-> [n \in Nodes |-> max_load],
              demands |-> [dyn[b].demands EXCEPT ![0] = 0],
              vtime   |-> dyn[b].vtime]]

\* variant: the load is topped up by 1.0 instead of set to 1.0
depot_block_top_up(dyn, chosen) ==
    [b \in 1..Len(dyn) |->
        IF chosen[b] # 0 THEN dyn[b]
        ELSE [loads   |-> [n \in Nodes |-> dyn[b].loads[n] + max_load],
              demands |-> [dyn[b].demands EXCEPT ![0] = 0],
              vtime   |-> [n \in Nodes |-> 0]]]

\* the block under "if depot.any()": full load, depot demand 0, time 0
depot_block(dyn, chosen) ==
    [b \in 1..Len(dyn) |->
        IF chosen[b] # 0 THEN dyn[b]
        ELSE [loads   |-> [n \in Nodes |-> max_load],
              demands |-> [dyn[b].demands EXCEPT ![0] = 0],
              vtime   |-> [n \in Nodes |-> 0]]]

\* variant: dynamic[:, k] alone, a view on the storage of dynamic
clone_view(t) == [data |-> t, own |-> FALSE]

\* dynamic[:, k].clone(): the same values in storage of its own
clone(t) == [data |-> t, own |-> TRUE]

\* st is self.static (the whole dataset's), tm the batch's time matrices.
\* value is the tensor returned (torch.cat and torch.tensor copy, lines
\* 198-199), or the state given when the call raises; given is the tensor
\* passed in as the assignments of lines 187-196 leave it.
update_dynamic(st, dyn, chosen, pre, tm) ==
    LET all_loads   == clone([b \in 1..Len(dyn) |-> dyn[b].loads])
        all_demands == clone([b \in 1..Len(dyn) |-> dyn[b].demands])
        all_vtime   == clone([b \in 1..Len(dyn) |-> dyn[b].vtime])
        all     == [b \in 1..Len(dyn) |->
                       [loads   |-> all_loads.data[b],
                        demands |-> all_demands.data[b],
                        vtime   |-> all_vtime.data[b]]]
        visit   == [b \in 1..Len(chosen) |-> chosen[b] # 0]
        depot   == [b \in 1..Len(chosen) |-> chosen[b] = 0]
        visited == IF \E b \in 1..Len(chosen) : visit[b]
                   THEN visit_block(st, all, chosen, pre, tm)
                   ELSE Ok(all)
        done    == IF visited.raised # "none" THEN visited
                   ELSE IF \E b \in 1..Len(chosen) : depot[b]
                        THEN Ok(depot_block(visited.value, chosen))
                        ELSE visited
    IN  [raised |-> done.raised,
         value  |-> done.value,
         given  |-> [b \in 1..Len(dyn) |->
                        [loads   |-> IF all_loads.own THEN dyn[b].loads
                                     ELSE done.value[b].loads,
                         demands |-> IF all_demands.own THEN dyn[b].demands
                                     ELSE done.value[b].demands,
                         vtime   |-> IF all_vtime.own THEN dyn[b].vtime
                                     ELSE done.value[b].vtime]]]

----------------------------------------------------------------------------
(* The operations as steps of a run *)

\* the batch's slice of self.time_matrix, as __getitem__ hands it out
BatchTimeMatrix == [b \in 1..Len(batch) |-> time_matrix[batch[b]]]

\* the nodes a policy can name, one per sample of the batch
Choices == [1..Len(batch) -> Nodes]

\* the policy names the nodes c and the caller passes them, with the nodes
\* named before, to update_dynamic; no mask holds for the state returned
UpdateDynamic ==
    /\ raised = "none"
    /\ \E c \in Choices :
        LET r == update_dynamic(static, dynamic, c, chosen_idx, BatchTimeMatrix)
        IN  /\ raised' = r.raised
            /\ dynamic' = r.value
            /\ chosen_idx' = c
            /\ pre_chosen_idx' = chosen_idx
            /\ given' = r.given
    /\ mask' = <<>>
    /\ time_mask' = <<>>
    /\ UNCHANGED <<locations, time_matrix, static, batch, config>>

UpdateMask ==
    /\ raised = "none"
    /\ mask = <<>>
    /\ mask' = update_mask(dynamic, chosen_idx)
    /\ UNCHANGED <<locations, time_matrix, static, batch, dynamic, chosen_idx,
                   pre_chosen_idx, time_mask, raised, given, config>>

UpdateTimeMask ==
    /\ raised = "none"
    /\ time_mask = <<>>
    /\ LET r == update_time_mask(static, dynamic, chosen_idx, BatchTimeMatrix)
       IN  /\ raised' = r.raised
           /\ time_mask' = r.value
    /\ UNCHANGED <<locations, time_matrix, static, batch, dynamic, chosen_idx,
                   pre_chosen_idx, mask, given, config>>

Next == UpdateDynamic \/ UpdateMask \/ UpdateTimeMask

Spec == Init /\ [][Next]_vars

----------------------------------------------------------------------------
(* Runs that follow the capacity mask *)

\* update_dynamic is called with nodes the mask of the state allows, one per
\* sample; no such call exists while some sample's mask is all zero
FollowMask ==
    /\ mask # <<>>
    /\ UpdateDynamic
    /\ \A p \in 1..Len(batch) : mask[p][chosen_idx'[p]] = 1

NextFollow == UpdateMask \/ FollowMask

\* the loop computes the mask of every state and then steps
SpecFollow ==
    Init /\ [][NextFollow]_vars /\ WF_vars(UpdateMask) /\ WF_vars(FollowMask)

----------------------------------------------------------------------------
(* The operations on any well-formed state *)

\* a state of the data model: a load in [0, 1] broadcast over the nodes, the
\* depot's demand slot load - 1, customer demands in [0, max_demand] and one
\* vehicle time in [0, 1] broadcast over the nodes
any_dynamic(l, d, t) ==
    [loads   |-> [n \in Nodes |-> l],
     demands |-> [n \in Nodes |-> IF n = 0 THEN l - max_load ELSE d[n]],
     vtime   |-> [n \in Nodes |-> t]]

AnyState(b, dyn, chosen) ==
    /\ config = DefaultConfig
    /\ config_error(config) = "none"
    /\ locations = DefaultLocations
    /\ time_matrix = generate_time_matrix(DefaultLocations)
    /\ static = DefaultStatic
    /\ batch = b
    /\ dynamic = dyn
    /\ chosen_idx = chosen
    /\ pre_chosen_idx = Start(b)
    /\ mask = <<>>
    /\ time_mask = <<>>
    /\ raised = "none"
    /\ given = <<>>

\* the batches explored from any state: the dataset's first samples in order
\* (every instance is the default one, so the order changes nothing)
AnyBatches == { b \in Batches : \A p \in 1..Len(b) : b[p] = p }

\* the customer demands of one sample: any, or the same for every customer
AnyDemands == [Customers -> 0..max_demand]

EqualDemands == { [k \in Customers |-> v] : v \in 0..max_demand }

\* the loads of the other samples of a batch: empty or full
PeerLoads == {0, max_load}

\* the customer demands of the other samples of a batch: served or not
PeerDemands == { [k \in Customers |-> v] : v \in 0..1 }

\* one sample of the batch is in any state; the others are empty or full,
\* served or not, with the vehicle at the depot.  The vehicle time is 0.
InitAnyLoad ==
    \E b \in AnyBatches :
    \E q \in 1..Len(b) :
    \E l \in [1..Len(b) -> 0..max_load] :
    \E d \in [1..Len(b) -> AnyDemands] :
    \E c \in [1..Len(b) -> Nodes] :
        /\ \A p \in 1..Len(b) :
              p # q => l[p] \in PeerLoads /\ d[p] \in PeerDemands /\ c[p] = 0
        /\ AnyState(b, [p \in 1..Len(b) |-> any_dynamic(l[p], d[p], 0)], c)

\* loads, vehicle times and previous nodes vary, every demand is the smallest one
InitAnyTime ==
    \E b \in AnyBatches :
    \E l \in [1..Len(b) -> 0..max_load] :
    \E t \in [1..Len(b) -> 0..Horizon] :
    \E c \in [1..Len(b) -> Nodes] :
        AnyState(b, [p \in 1..Len(b) |->
                        any_dynamic(l[p], [k \in Customers |-> 1], t[p])], c)

InitAny == InitAnyLoad \/ InitAnyTime

SpecAny == InitAny /\ [][Next]_vars

----------------------------------------------------------------------------
(* The constructor on any configuration *)

\* the configurations explored: every argument up to the sizes above, the
\* largest demand one beyond the load
Configs ==
    [max_load : 1..max_load, max_demand : 0..(max_load + 1),
     min_TW : 0..TW_to, max_TW : 0..TW_to,
     TW_from : 0..TW_to, TW_to : 0..TW_to]

\* TW_to - TW_from, the divisor of lines 48, 59 and 60
span_of(cfg) == cfg.TW_to - cfg.TW_from

\* The times of a dataset built from cfg are multiples of 1 / time_den(cfg):
\* of 1 / (TW_to - TW_from) the windows drawn, of 1 / TW_to the quotients
\* TW_from / TW_to and TW_to / TW_to of lines 61-62 (0 and 1 when TW_from = 0).
\* A time t of the code is the integer t * time_den(cfg), so 1.0 is time_den(cfg).
time_den(cfg) == span_of(cfg) * (IF cfg.TW_from = 0 THEN 1 ELSE cfg.TW_to)

\* x / float(TW_to - TW_from) for an integer x, in units of 1 / time_den(cfg)
normalised(cfg, x) == x * (time_den(cfg) \div span_of(cfg))

\* torch.randint(low, high, ...): the integers low .. high - 1, a RuntimeError
\* when there is none
randint(low, high) ==
    IF low >= high THEN Raise("RuntimeError:randint", {}) ELSE Ok(low..(high - 1))

\* lines 59-62 for one sample whose customers drew the start and the span
\* (/ is Python 3's true division):
\* tw_start[:, 0, 0] = TW_from / TW_to - TW_from, that is (TW_from / TW_to)
\* minus TW_from, and tw_end[:, 0, 0] = TW_to / TW_to - TW_from, that is 1
\* minus TW_from
windows(cfg, start, span) ==
    [tw_start |-> [n \in Nodes |->
                      IF n = 0
                      THEN (cfg.TW_from * time_den(cfg)) \div cfg.TW_to
                               - cfg.TW_from * time_den(cfg)
                      ELSE normalised(cfg, start)],
     tw_end   |-> [n \in Nodes |->
                      IF n = 0
                      THEN time_den(cfg) - cfg.TW_from * time_den(cfg)
                      ELSE normalised(cfg, start + span)]]

\* lines 70-83 for one sample whose customers drew the demand d: integers in
\* units of 1 / max_load, so the load 1.0 is cfg.max_load
first_dynamic(cfg, d) ==
    [loads   |-> [n \in Nodes |-> cfg.max_load],
     demands |-> [n \in Nodes |-> IF n = 0 THEN 0 ELSE d],
     vtime   |-> [n \in Nodes |-> 0]]

\* __init__ in the order of its statements; the exception of a call that
\* raises leaves no dataset behind
VRPTWDataset(cfg, start, span, d) ==
    LET none   == [raised |-> "none", static |-> <<>>, dynamic |-> <<>>]
        starts == randint(cfg.TW_from, cfg.TW_to - cfg.max_TW + 1)
        spans  == randint(cfg.min_TW, cfg.max_TW + 1)
        dems   == randint(1, cfg.max_demand + 1)
    IN  IF config_error(cfg) # "none"
            THEN [none EXCEPT !.raised = config_error(cfg)]
        ELSE IF span_of(cfg) = 0
            THEN [none EXCEPT !.raised = "ZeroDivisionError"]
        ELSE IF starts.raised # "none" \/ spans.raised # "none" \/ dems.raised # "none"
            THEN [none EXCEPT !.raised = "RuntimeError:randint"]
        ELSE IF start \notin starts.value \/ span \notin spans.value \/ d \notin dems.value
            THEN none
        ELSE [raised  |-> "none",
              static  |-> [s \in Samples |-> windows(cfg, start, span)],
              dynamic |-> [s \in Samples |-> first_dynamic(cfg, d)]]

\* the constructor is about to be called with the arguments cfg
InitConfig ==
    /\ config \in Configs
    /\ locations = <<>>
    /\ time_matrix = <<>>
    /\ static = <<>>
    /\ batch = <<>>
    /\ dynamic = <<>>
    /\ chosen_idx = <<>>
    /\ pre_chosen_idx = <<>>
    /\ mask = <<>>
    /\ time_mask = <<>>
    /\ raised = "none"
    /\ given = <<>>

\* the draws of one call: every customer of every sample draws the same
\* window start, window length and demand
Draws == (0..TW_to) \X (0..TW_to) \X (0..(max_load + 1))

\* the constructor runs; the dataset built is handed out as one batch
Construct ==
    /\ static = <<>>
    /\ raised = "none"
    /\ \E draw \in Draws :
        LET r == VRPTWDataset(config, draw[1], draw[2], draw[3])
        IN  /\ r.raised # "none" \/ r.static # <<>>
            /\ raised' = r.raised
            /\ static' = r.static
            /\ dynamic' = r.dynamic
            /\ batch' = IF r.raised = "none" THEN [s \in Samples |-> s] ELSE <<>>
            /\ chosen_idx' = IF r.raised = "none" THEN [s \in Samples |-> 0] ELSE <<>>
            /\ pre_chosen_idx' = chosen_idx'
            /\ locations' = IF r.raised = "none" THEN DefaultLocations ELSE <<>>
            /\ time_matrix' = IF r.raised = "none"
                              THEN generate_time_matrix(DefaultLocations) ELSE <<>>
    /\ UNCHANGED <<mask, time_mask, given, config>>

SpecConfig == InitConfig /\ [][Construct]_vars

----------------------------------------------------------------------------
(* Properties *)

Positions == 1..Len(batch)

Load(p) == dynamic[p].loads[0]

Demand(p, n) == dynamic[p].demands[n]

\* every customer of the sample at position p is served
CustomersServed(p) == \A k \in Customers : Demand(p, k) = 0

\* every demand entry of every sample of the batch is 0, the depots' included
BatchAllZero == \A p \in Positions : \A n \in Nodes : Demand(p, n) = 0

\* the zero-load / zero-demand rule covers the sample at position p
Override(p) == Load(p) = 0 \/ SumRow(dynamic[p].demands, NumCustomers) = 0

AllZeroMask(p) == \A n \in Nodes : mask[p][n] = 0

DepotOnlyMask(p) == mask[p][0] = 1 /\ \A k \in Customers : mask[p][k] = 0

\* a step in which update_dynamic was called and returned
Returned == raised' = "none" /\ mask' = <<>> /\ time_mask' = <<>>

\* a step in which update_dynamic was called, whether it returned or raised
Called == Returned \/ raised' \in {"TypeError", "IndexError", "RuntimeError:clamp"}

\* C1 as stated: whenever every customer of a sample has demand 0, the mask
\* update_mask returns for that sample is all zero, whatever the depot's slot,
\* the previous node and the other samples of the batch.
C1_MaskTermination ==
    mask # <<>> => \A p \in Positions : CustomersServed(p) => AllZeroMask(p)

\* C1 amended: a sample whose customers all have demand 0 gets the all-zero
\* mask exactly when every demand entry of every sample of the batch, the
\* depots' slots included, is 0; otherwise it gets the depot-only mask.
C1_BatchTermination ==
    mask # <<>> =>
        \A p \in Positions :
            CustomersServed(p) =>
                IF BatchAllZero THEN AllZeroMask(p) ELSE DepotOnlyMask(p)

\* a served sample back at the depot is sent to the depot again because
\* another sample of the batch is not served
C1_Witness ==
    /\ mask # <<>>
    /\ \E p \in Positions :
        /\ \A n \in Nodes : Demand(p, n) = 0
        /\ DepotOnlyMask(p)
        /\ \E q \in Positions : ~CustomersServed(q)

\* C2 as stated: a sample whose load is 0 or whose customers' total demand
\* is 0 gets exactly the depot-only mask.
C2_ForcedDepot ==
    mask # <<>> => \A p \in Positions : Override(p) => DepotOnlyMask(p)

\* C2 amended: a sample whose load is 0 or whose customers' total demand is 0
\* gets exactly the depot-only mask, also right after a depot visit, unless
\* every demand entry of every sample of the batch is 0 (then the mask is all
\* zero).
C2_ForcedDepotUnlessDone ==
    mask # <<>> =>
        \A p \in Positions :
            Override(p) =>
                IF BatchAllZero THEN AllZeroMask(p) ELSE DepotOnlyMask(p)

\* an empty vehicle that has just been at the depot, with demand left, is
\* sent to the depot
C2_Witness ==
    /\ mask # <<>>
    /\ \E p \in Positions :
        /\ Load(p) = 0
        /\ chosen_idx[p] = 0
        /\ ~CustomersServed(p)
        /\ DepotOnlyMask(p)

\* the depot's entry of a mask outside the zero-load / zero-demand rule
C3_DepotEntry ==
    mask # <<>> =>
        \A p \in Positions :
            ~Override(p) => mask[p][0] = IF chosen_idx[p] # 0 THEN 1 ELSE 0

\* a returned step that follows the mask and names the depot right after
\* the depot
C3_DepotTwice(p) ==
    /\ mask # <<>>
    /\ Returned
    /\ \A q \in Positions : mask[q][chosen_idx'[q]] = 1
    /\ chosen_idx[p] = 0
    /\ chosen_idx'[p] = 0

\* C3: outside the zero-load / zero-demand rule the mask's depot entry is 1
\* when the node chosen last is not the depot and 0 when it is the depot; so
\* no step that follows the mask names the depot twice in a row while the
\* sample has positive load and an unserved customer.
C3_DepotAlternation ==
    /\ []C3_DepotEntry
    /\ [][\A p \in Positions : C3_DepotTwice(p) => Override(p)]_vars

\* a vehicle away from the depot, loaded and with demand left, may return
C3_Witness ==
    /\ mask # <<>>
    /\ \E p \in Positions :
        /\ ~Override(p)
        /\ chosen_idx[p] # 0
        /\ mask[p][0] = 1
        /\ \E k \in Customers : mask[p][k] = 1

\* C4 as stated: a call of update_dynamic that names a customer c for a
\* sample returns a state with new_load = max(load - demand[c], 0),
\* new_demand[c] = max(demand[c] - load, 0), at most one of the two positive,
\* and the depot's demand slot new_load - 1.
C4_Settlement ==
    [][\A p \in Positions :
          (Called /\ chosen_idx'[p] # 0) =>
              LET c          == chosen_idx'[p]
                  load       == dynamic[p].loads[c]
                  demand     == dynamic[p].demands[c]
                  new_load   == Max(load - demand, 0)
                  new_demand == Max(demand - load, 0)
              IN  /\ raised' = "none"
                  /\ dynamic'[p].loads[0] = new_load
                  /\ dynamic'[p].demands[c] = new_demand
                  /\ new_load = 0 \/ new_demand = 0
                  /\ dynamic'[p].demands[0] = new_load - max_load]_vars

\* C5: when update_dynamic returns, every sample whose chosen node is the
\* depot has load 1.0 (max_load), depot demand 0 and vehicle time 0,
\* whatever its state was.
C5_DepotReset ==
    [][\A p \in Positions :
          (Returned /\ chosen_idx'[p] = 0) =>
              /\ \A n \in Nodes : dynamic'[p].loads[n] = max_load
              /\ dynamic'[p].demands[0] = 0
              /\ \A n \in Nodes : dynamic'[p].vtime[n] = 0]_vars

\* a vehicle that was away from the depot has visited the depot
C5_Witness ==
    /\ raised = "none"
    /\ mask = <<>>
    /\ \E p \in Positions :
        /\ pre_chosen_idx[p] # 0
        /\ chosen_idx[p] = 0
        /\ Load(p) = max_load
        /\ Demand(p, 0) = 0
        /\ dynamic[p].vtime[0] = 0

\* C6: for a sample outside the zero-load / zero-demand rule (so with an
\* unserved customer), the mask marks customer j legal exactly when
\* demand[j] # 0 and demand[j] < load, strictly.
C6_CapacityLegality ==
    mask # <<>> =>
        \A p \in Positions :
            (~BatchAllZero /\ ~Override(p)) =>
                \A j \in Customers :
                    mask[p][j] = 1 <=> (Demand(p, j) # 0 /\ Demand(p, j) < Load(p))

\* one customer fits and is legal, another needs exactly the load and is not
C6_Witness ==
    /\ mask # <<>>
    /\ \E p \in Positions :
        /\ ~Override(p)
        /\ \E j \in Customers : Demand(p, j) = Load(p) /\ mask[p][j] = 0
        /\ \E j \in Customers : Demand(p, j) # 0 /\ mask[p][j] = 1

\* C7 as stated: a customer visit from a state with vehicle_time <= 1 gives
\* new_vehicle_time >= vehicle_time, and vehicle_time <= 1 in every state.
C7_TimeMonotone ==
    /\ [][\A p \in Positions :
            (Called /\ chosen_idx'[p] # 0
                /\ dynamic[p].vtime[chosen_idx'[p]] <= Horizon) =>
                /\ raised' = "none"
                /\ \A n \in Nodes :
                      dynamic'[p].vtime[n] >= dynamic[p].vtime[chosen_idx'[p]]]_vars
    /\ [](\A p \in Positions : \A n \in Nodes : dynamic[p].vtime[n] <= Horizon)

\* C8 as stated: a customer visit from node pre to node c sets the vehicle
\* time to min(max(vehicle_time + time_matrix[pre][c], time_window_start[c])
\* + service_time, 1.0), with the window of node c of the same sample.
C8_WaitForWindow ==
    [][\A p \in Positions :
          (Called /\ chosen_idx'[p] # 0) =>
              LET c       == chosen_idx'[p]
                  pre     == chosen_idx[p]
                  arrival == dynamic[p].vtime[c] + time_matrix[batch[p]][pre][c]
                  started == Max(arrival, static[batch[p]].tw_start[c])
              IN  /\ raised' = "none"
                  /\ \A n \in Nodes :
                        dynamic'[p].vtime[n] = Min(started + servicetime, Horizon)]_vars

\* C9 as stated: for every sample of the batch, node j is time-legal exactly
\* when the end of the sample's own window of j is >= vehicle_time +
\* time_matrix[node chosen last][j]; the call leaves the dynamic state alone.
C9_TimeWindowMask ==
    /\ [](time_mask # <<>> =>
            \A p \in Positions : \A j \in Nodes :
                time_mask[p][j] = 1 <=>
                    static[batch[p]].tw_end[j] >=
                        dynamic[p].vtime[j] + time_matrix[batch[p]][chosen_idx[p]][j])
    /\ [][(time_mask = <<>> /\ time_mask' # <<>>) => dynamic' = dynamic]_vars

\* the states the other samples of a batch are replaced by
OtherStates ==
    { any_dynamic(l, d, 0) : l \in 0..max_load, d \in EqualDemands }

\* the batches that agree with the current one on the sample at position p
Alternatives(p) ==
    { alt \in [Positions -> OtherStates \cup {dynamic[p]}] : alt[p] = dynamic[p] }

\* C10 as stated: the mask and the next state of the sample at position p
\* are the same in every batch that agrees with this one on p (state,
\* previous node, chosen node), whatever the other samples are and choose.
C10_Independence ==
    \A p \in Positions :
    \A alt \in Alternatives(p) :
    \A prev \in { x \in Choices : x[p] = chosen_idx[p] } :
        /\ update_mask(alt, prev)[p] = update_mask(dynamic, chosen_idx)[p]
        /\ \A c \in Choices : \A c2 \in { x \in Choices : x[p] = c[p] } :
              LET r1 == update_dynamic(static, dynamic, c, chosen_idx, BatchTimeMatrix)
                  r2 == update_dynamic(static, alt, c2, prev, BatchTimeMatrix)
              IN  /\ r1.raised = r2.raised
                  /\ r1.raised = "none" => r1.value[p] = r2.value[p]

\* C11 as stated: in every state reached by update_dynamic steps the depot's
\* demand slot is load - 1; a customer visit returns a state whose slot is
\* new_load - 1, a depot visit one whose slot is 0 with load 1; so the slot
\* is 0 exactly when the vehicle is fully loaded.
C11_DepotSentinel ==
    /\ [](\A p \in Positions : Demand(p, 0) = Load(p) - max_load)
    /\ [](\A p \in Positions : Demand(p, 0) = 0 <=> Load(p) = max_load)
    /\ [][\A p \in Positions :
            (Called /\ chosen_idx'[p] # 0) =>
                LET c == chosen_idx'[p]
                IN  /\ raised' = "none"
                    /\ dynamic'[p].demands[0] =
                          Max(dynamic[p].loads[c] - dynamic[p].demands[c], 0) - max_load]_vars
    /\ [][\A p \in Positions :
            (Returned /\ chosen_idx'[p] = 0) =>
                dynamic'[p].demands[0] = 0 /\ dynamic'[p].loads[0] = max_load]_vars

\* C12: whatever nodes are named, and whether the call returns or raises,
\* the tensor given to update_dynamic holds after the call the load, demand
\* and vehicle_time values it held before; the state returned is a value of
\* its own, so it may differ from the tensor given.
C12_FunctionalUpdate ==
    [][Called => given' = dynamic]_vars

\* a depot visit has returned a state that differs from the one given, and
\* the one given is as it was: less than full, or late
C12_Witness ==
    /\ raised = "none"
    /\ given # <<>>
    /\ \E p \in Positions :
        /\ chosen_idx[p] = 0
        /\ given[p] # dynamic[p]
        /\ given[p].loads[0] < max_load \/ given[p].vtime[0] > 0

\* 1.0 in the time units of the dataset built
One == time_den(config)

\* C13 as stated: for every configuration the constructor accepts and every
\* node of every sample it builds, 0 <= time_window_start <= time_window_end
\* <= 1, and the depot's window is exactly [0, 1].
C13_TimeWindows ==
    static # <<>> =>
        \A s \in 1..Len(static) :
            /\ \A n \in Nodes :
                  /\ 0 <= static[s].tw_start[n]
                  /\ static[s].tw_start[n] <= static[s].tw_end[n]
                  /\ static[s].tw_end[n] <= One
            /\ static[s].tw_start[0] = 0
            /\ static[s].tw_end[0] = One

\* the configuration violates one of the three constraints
Violates ==
    \/ config.max_load < config.max_demand
    \/ config.max_TW < config.min_TW
    \/ config.TW_to < config.TW_from

C15_SoundTerminal ==
    mask # <<>> => \A p \in Positions : AllZeroMask(p) => CustomersServed(p)

\* every sample is served and back at the depot with load 1, and the mask of
\* the state is all zero
Finished ==
    /\ raised = "none"
    /\ mask # <<>>
    /\ \A p \in Positions :
        /\ CustomersServed(p)
        /\ chosen_idx[p] = 0
        /\ Load(p) = max_load
        /\ AllZeroMask(p)

\* C16 as stated, less the bound of 2N+1 steps: when every customer's
\* initial demand is below the full load, every run that starts at the depot
\* with load 1 and names at each step nodes the capacity mask allows reaches
\* a state where every customer's demand is 0, the vehicle is at the depot
\* with load 1 and update_mask returns the all-zero mask.
C16_EpisodeTermination ==
    (\A p \in Positions : \A k \in Customers : Demand(p, k) < max_load)
        => <>Finished

\* C17 as stated: along every run whose chosen nodes are legal in the
\* capacity mask, every customer visit returns a state in which that
\* customer's demand is 0 and the load is positive; so no state with load 0
\* is reached, and no customer that is named has been served before.
C17_NoPartialService ==
    /\ [][\A p \in Positions :
            (Called /\ chosen_idx'[p] # 0) =>
                /\ raised' = "none"
                /\ dynamic'[p].demands[chosen_idx'[p]] = 0
                /\ dynamic'[p].loads[0] > 0
                /\ dynamic[p].demands[chosen_idx'[p]] # 0]_vars
    /\ [](\A p \in Positions : Load(p) > 0)

\* the sample at position p has load 1, depot demand 0 and vehicle time 0
AtRest(p) ==
    /\ \A n \in Nodes : dynamic[p].loads[n] = max_load
    /\ Demand(p, 0) = 0
    /\ \A n \in Nodes : dynamic[p].vtime[n] = 0

\* C18: a call of update_dynamic that names the depot for a sample with
\* load 1, depot demand 0 and vehicle time 0 leaves that sample's state as it
\* was, whatever the other samples of the batch do; and the state a depot
\* visit returns is returned again by a second depot visit.
C18_IdempotentDepot ==
    /\ [][\A p \in Positions :
            (Called /\ chosen_idx'[p] = 0 /\ AtRest(p)) =>
                dynamic'[p] = dynamic[p]]_vars
    /\ [][(Returned /\ \A p \in Positions : chosen_idx'[p] = 0) =>
            LET again == update_dynamic(static, dynamic', chosen_idx', chosen_idx',
                                        BatchTimeMatrix)
            IN  again.raised = "none" /\ again.value = dynamic']_vars

\* a served sample at rest at the depot has been sent to the depot again and
\* is as it was, while another sample of the batch, not served, was refilled
C18_Witness ==
    /\ raised = "none"
    /\ given # <<>>
    /\ \E p \in Positions :
        /\ CustomersServed(p)
        /\ pre_chosen_idx[p] = 0
        /\ chosen_idx[p] = 0
        /\ AtRest(p)
        /\ given[p] = dynamic[p]
        /\ \E q \in Positions :
            /\ ~CustomersServed(q)
            /\ chosen_idx[q] = 0
            /\ given[q] # dynamic[q]

\* C19 as stated: a call of update_dynamic that names customer c for a
\* sample returns a state in which, of that sample, only the load, demand[c],
\* the depot's demand slot and the vehicle time may differ: the demand of
\* every other customer is as before.  A depot visit leaves every customer's
\* demand as before.  The state returned for a sample is that of a call with
\* this sample alone, so no other sample's step changes it.
C19_VisitFrame ==
    /\ [][\A p \in Positions :
            (Called /\ chosen_idx'[p] # 0) =>
                /\ raised' = "none"
                /\ \A k \in Customers \ {chosen_idx'[p]} :
                      dynamic'[p].demands[k] = dynamic[p].demands[k]]_vars
    /\ [][\A p \in Positions :
            (Called /\ chosen_idx'[p] = 0) =>
                \A k \in Customers :
                    dynamic'[p].demands[k] = dynamic[p].demands[k]]_vars
    /\ [][\A p \in Positions :
            Called =>
                LET alone == update_dynamic(static, <<dynamic[p]>>, <<chosen_idx'[p]>>,
                                            <<chosen_idx[p]>>, <<BatchTimeMatrix[p]>>)
                IN  alone.raised = "none" => dynamic'[p] = alone.value[1]]_vars

\* load, customer demands and depot slot of one sample's state are in range
InRange(d) ==
    /\ \A n \in Nodes : 0 <= d.loads[n] /\ d.loads[n] <= max_load
    /\ \A k \in Customers : d.demands[k] >= 0
    /\ -max_load <= d.demands[0] /\ d.demands[0] <= 0

\* the state lines 187-189 assign to the sample at position p when node n is
\* named for it, from the values lines 173-174 compute; the vehicle time is
\* left as it is
Settled(p, n) ==
    LET one == <<dynamic[p]>>
        s   == settle(one, <<n>>)
    IN  visit_assign(one, <<n>>, s.new_load, s.new_demand,
                     <<dynamic[p].vtime>>).value[1]

\* C20: in every state reached by visits of nodes in range, legal in the
\* mask or not, 0 <= load <= 1, every customer's demand is >= 0 and
\* -1 <= demand[depot] <= 0; no step makes a customer's demand larger than it
\* was, a depot refill included.  The same holds of the state lines 173-189
\* compute for any node named (the call raises before it returns that
\* state).
C20_Ranges ==
    /\ [](\A p \in Positions : InRange(dynamic[p]))
    /\ [][\A p \in Positions : \A k \in Customers :
            dynamic'[p].demands[k] <= dynamic[p].demands[k]]_vars
    /\ [](\A p \in Positions : \A n \in Nodes :
            LET d == Settled(p, n)
            IN  /\ InRange(d)
                /\ \A k \in Customers : d.demands[k] <= Demand(p, k))

\* an empty vehicle with a customer left to serve has been refilled at the
\* depot: the load went from 0 to 1, the depot's slot from -1 to 0, and the
\* customer's demand is what it was
C20_Witness ==
    /\ raised = "none"
    /\ given # <<>>
    /\ \E p \in Positions :
        /\ chosen_idx[p] = 0
        /\ given[p].loads[0] = 0
        /\ given[p].demands[0] = -max_load
        /\ Load(p) = max_load
        /\ Demand(p, 0) = 0
        /\ \E k \in Customers :
            Demand(p, k) > 0 /\ Demand(p, k) = given[p].demands[k]

====
